---- MODULE Spec2Model ----
(***************************************************************************)
(* A model of the race simulation: Runner (runner.py), Race (race.py) and  *)
(* Competition (competition.py).                                           *)
(*                                                                         *)
(* Units.  Python floats are modelled by integers: a distance is a number  *)
(* of metres (4.5 km = 4500), a speed a number of tenths of a metre per    *)
(* second (6.5 m/s = 65), run_race returns hundredths of a second (its     *)
(* round(.., 2)), and a race result is a number of milliseconds (a short   *)
(* race multiplies by 1.2, which is 12 ms per hundredth).                  *)
(***************************************************************************)
EXTENDS Integers, Sequences, FiniteSets, TLC

\* ------------------------------------------------------------------ bounds
\* Size of the roster handed to Competition.
NumRunners == 3

\* ------------------------------------------------------- program constants
MAX_ROUNDS == 3
max_energy == 1000
\* Half the cost of a kilometre.
energy_per_km_half == 100 \div 2
energy_per_km == 100
\* The string "DNF" that replaces a marathon time; never a valid time (>= 0).
DNF == -1
\* The None of an empty leaderboard slot; a filled slot is <<name, score>>.
None == <<>>

VARIABLES
    name,               \* Runner.name, per runner
    sprint_speed,       \* Runner.sprint_speed, per runner
    endurance_speed,    \* Runner.endurance_speed, per runner
    energy,             \* Runner.energy, per runner
    rounds,             \* Competition.rounds
    distances_short,    \* Competition.distances_short
    distances_marathon, \* Competition.distances_marathon
    leaderboard,        \* Competition.leaderboard: slot (1 = "1st") -> None or <<name, score>>
    pc,                 \* position in conduct_competition
    current_round,      \* its local current_round
    i,                  \* its local i
    short_race,         \* its local short_race (a Race object)
    marathon,           \* its local marathon (a Race object)
    short_result,       \* its local short_result
    marathon_result,    \* its local marathon_result
    err,                \* the exception the last call raised, or "none"
    call,               \* the last direct Runner call: op, runner, argument, energy before
    start_energy,       \* history: per runner, the energy when the last marathon started
    earned,             \* history: per runner object, the points of the races folded in
    folded,             \* history: number of result sets folded in
    numeric_folded,     \* history: number of them in which nobody was DNF
    runners,            \* the roster list: Competition.runners, and the Race.runners sharing it
    race,               \* a Race object used on its own
    race_result,        \* what its last conduct_race call returned
    race_calls          \* history: number of calls made while the Race is used on its own

vars == <<name, sprint_speed, endurance_speed, energy, rounds, distances_short,
          distances_marathon, leaderboard, pc, current_round, i, short_race,
          marathon, short_result, marathon_result, err, call, start_energy,
          earned, folded, numeric_folded, runners, race, race_result, race_calls>>

\* The runners of Competition.runners: the list holds runners 1 .. n in this
\* order.
Roster == 1 .. Len(runners)
\* The list [runner 1, ..., runner n].
RosterList(n) == [k \in 1 .. n |-> k]

\* ------------------------------------------------------------ input sets
\* Runner names (the runners of competition.py's example).
Names == <<"Elijah", "Rupert", "Phoebe", "Lauren", "Chloe">>
\* A roster with pairwise distinct names, and one where the second runner
\* carries the name of the first (Runner does not require unique names).
NameChoices ==
    {[r \in Roster |-> Names[r]],
     [r \in Roster |-> IF r = 2 THEN Names[1] ELSE Names[r]]}
\* <<sprint_speed, endurance_speed>> in tenths of m/s, within Runner's ranges.
Profiles == {<<65, 40>>, <<30, 20>>}
\* <<short distance, marathon distance>> of one round, in metres.
RoundDistances == {<<500, 4500>>, <<1200, 11000>>}
\* Arguments of the direct drain_energy / recover_energy calls made on the
\* roster's runners before the competition is conducted.
DrainAmounts == {500, 850, 1000}
RecoverAmounts == {1000}

\* ---------------------------------------------------------------- helpers
Max(a, b) == IF a >= b THEN a ELSE b
Min(a, b) == IF a <= b THEN a ELSE b

\* round(num / den) to the nearest integer, ties to even (Python's round).
RoundDiv(num, den) ==
    LET q == num \div den
        rem == num % den
    IN  IF 2 * rem > den THEN q + 1
        ELSE IF 2 * rem < den THEN q
        ELSE IF q % 2 = 0 THEN q ELSE q + 1

\* math.ceil(distance) for a distance in metres: whole kilometres.
Ceil(distance) == (distance + 999) \div 1000

\* An insertion that puts x before the elements with an equal key (a sort
\* that is not stable).
InsertSorted_unstable(sorted, x) ==
    LET before == {k \in 1 .. Len(sorted) : sorted[k][1] < x[1]}
        n == Cardinality(before)
    IN  SubSeq(sorted, 1, n) \o <<x>> \o SubSeq(sorted, n + 1, Len(sorted))

\* Python's sorted(seq, key = ...) for integer keys: a stable ascending sort.
\* `seq` is a sequence of <<key, item>>; x goes after every element whose key
\* is not greater than its own.
InsertSorted(sorted, x) ==
    LET before == {k \in 1 .. Len(sorted) : sorted[k][1] <= x[1]}
        n == Cardinality(before)
    IN  SubSeq(sorted, 1, n) \o <<x>> \o SubSeq(sorted, n + 1, Len(sorted))

RECURSIVE SortedPrefix(_, _)
SortedPrefix(seq, n) ==
    IF n = 0 THEN <<>> ELSE InsertSorted(SortedPrefix(seq, n - 1), seq[n])

Sorted(seq) ==
    LET out == SortedPrefix(seq, Len(seq)) IN [k \in 1 .. Len(out) |-> out[k][2]]

\* ----------------------------------------------------------------- Runner
\* drain_energy without its clamp at 0 (lines 78-79 left out).
drain_energy_unclamped(e, drain_points) == e - drain_points

\* Runner.drain_energy's mutation for a valid argument.
drain_energy(e, drain_points) ==
    IF e - drain_points < 0 THEN 0 ELSE e - drain_points

\* recover_energy without its clamp at max_energy (lines 102-103 left out).
recover_energy_unclamped(e, recovery_amount) == e + recovery_amount

\* Runner.recover_energy's mutation for a valid argument.
recover_energy(e, recovery_amount) ==
    IF e + recovery_amount > max_energy THEN max_energy ELSE e + recovery_amount

\* An argument handed to drain_energy / recover_energy: its Python type and,
\* for a number, its value ('200' is [type |-> "str", value |-> 200]).
\* The two tests both methods start with (lines 68-74, 92-98): the exception
\* raised for argument a, "none" if a passes.
Rejection(a) ==
    IF a.type # "int" THEN "CustomTypeError"
    ELSE IF ~(1 <= a.value /\ a.value <= max_energy) THEN "CustomValueError"
    ELSE "none"

\* drain_energy with the range test after the mutation.
drain_energy_call_late(e, a) ==
    IF a.type # "int" THEN e ELSE drain_energy(e, a.value)

\* Runner.drain_energy(a): the energy the call leaves, raise or return.
drain_energy_call(e, a) ==
    IF Rejection(a) # "none" THEN e ELSE drain_energy(e, a.value)

\* Runner.recover_energy(a): the energy the call leaves, raise or return.
recover_energy_call(e, a) ==
    IF Rejection(a) # "none" THEN e ELSE recover_energy(e, a.value)

\* Runner.run_race: hundredths of a second for `distance` metres.
run_race(r, race_type, distance) ==
    IF race_type = "short"
    THEN RoundDiv(distance * 1000, sprint_speed[r])
    ELSE RoundDiv(distance * 1000, endurance_speed[r])

\* ------------------------------------------------------------------- Race
\* A Race object as conduct_competition builds it (its roster is the
\* competition's roster list, shared by reference).
NoRace == [race_type |-> "none", distance |-> 0, maximum_participants |-> 0]
ShortRace(distance) ==
    [race_type |-> "short", distance |-> distance, maximum_participants |-> 8]
MarathonRace(distance) ==
    [race_type |-> "long", distance |-> distance, maximum_participants |-> 16]

\* The kilometre loop with the energy test of line 110 written >= 0.
RECURSIVE Kilometres_ge(_, _, _, _)
Kilometres_ge(r, km, e, t) ==
    IF km = 0 THEN [time |-> t, energy |-> e]
    ELSE IF e >= 0
         THEN Kilometres_ge(r, km - 1, IF e < energy_per_km THEN 0 ELSE e - energy_per_km,
                            t + run_race(r, "long", 1000))
         ELSE [time |-> DNF, energy |-> e]

\* The kilometre loop of a marathon for runner r: `km` kilometres are still
\* to be simulated, the runner has energy e and has accumulated time t
\* (hundredths of a second).  Gives the runner's result and final energy.
RECURSIVE Kilometres(_, _, _, _)
Kilometres(r, km, e, t) ==
    IF km = 0 THEN [time |-> t, energy |-> e]
    ELSE IF e > 0
         THEN Kilometres(r, km - 1, drain_energy(e, energy_per_km),
                         t + run_race(r, "long", 1000))
         ELSE [time |-> DNF, energy |-> e]

\* One runner's marathon, from energy e.
MarathonRun(r, distance, e) == Kilometres(r, Ceil(distance), e, 0)

\* One pass of conduct_race's loop over the roster with the energy drain
\* applied to both race types (the short branch running the kilometre loop).
RunnerOutcome_drained(race_, r, e) ==
    LET out == MarathonRun(r, race_.distance, e)
    IN  [time |-> IF out.time = DNF THEN DNF ELSE out.time * 10,
         energy |-> out.energy]

\* One pass of conduct_race's loop (lines 101-116) for roster entry r whose
\* energy is e: the result in milliseconds and the energy left.
RunnerOutcome(race_, r, e) ==
    IF race_.race_type = "short"
    THEN [time |-> run_race(r, "short", race_.distance) * 12, energy |-> e]
    ELSE LET out == MarathonRun(r, race_.distance, e)
         IN  [time |-> IF out.time = DNF THEN DNF ELSE out.time * 10,
              energy |-> out.energy]

\* conduct_race's loop over the first n entries of the roster list rs: the
\* result list so far and every runner's energy.  A runner the list holds
\* twice runs twice, the second time on the energy the first run left.
RECURSIVE RaceLoop(_, _, _, _)
RaceLoop(race_, rs, n, en) ==
    IF n = 0 THEN [result |-> <<>>, energy |-> en]
    ELSE LET prev == RaceLoop(race_, rs, n - 1, en)
             out == RunnerOutcome(race_, rs[n], prev.energy[rs[n]])
         IN  [result |-> Append(prev.result, <<rs[n], out.time>>),
              energy |-> [prev.energy EXCEPT ![rs[n]] = out.energy]]

\* conduct_race returning its results sorted by time, as a ranking would be.
conduct_race_sorted(race_, en) ==
    LET res == RaceLoop(race_, runners, Len(runners), en).result
    IN  Sorted([k \in DOMAIN res |-> <<res[k][2], res[k]>>])

\* Race.conduct_race: the result list, in roster order, in milliseconds.
conduct_race(race_, en) == RaceLoop(race_, runners, Len(runners), en).result

\* The runners' energy after Race.conduct_race.
race_energy(race_, en) == RaceLoop(race_, runners, Len(runners), en).energy

\* Race.add_runner with the two tests of lines 69-73 in the other order.
add_runner_present_first(rs, r, maximum_participants) ==
    IF \E k \in DOMAIN rs : rs[k] = r
    THEN [raised |-> "RunnerAlreadyExistsError", runners |-> rs]
    ELSE IF Len(rs) >= maximum_participants
    THEN [raised |-> "RaceIsFullError", runners |-> rs]
    ELSE [raised |-> "none", runners |-> Append(rs, r)]

\* Race.add_runner(r) for a Runner r on the roster list rs: the exception
\* raised ("none" if the call returns) and the roster it leaves.
add_runner(rs, r, maximum_participants) ==
    IF Len(rs) >= maximum_participants
    THEN [raised |-> "RaceIsFullError", runners |-> rs]
    ELSE IF \E k \in DOMAIN rs : rs[k] = r
    THEN [raised |-> "RunnerAlreadyExistsError", runners |-> rs]
    ELSE [raised |-> "none", runners |-> Append(rs, r)]

\* Race.remove_runner(r): list.remove takes out the first occurrence.
remove_runner(rs, r) ==
    IF ~ \E k \in DOMAIN rs : rs[k] = r
    THEN [raised |-> "RunnerDoesntExistError", runners |-> rs]
    ELSE LET first == CHOOSE k \in DOMAIN rs :
                        rs[k] = r /\ \A j \in 1 .. k - 1 : rs[j] # r
         IN  [raised |-> "none",
              runners |-> SubSeq(rs, 1, first - 1) \o SubSeq(rs, first + 1, Len(rs))]

\* ------------------------------------------------------------ Competition
\* sorted(results, key=lambda x: x[1]) compares a float with the str "DNF"
\* as soon as the results hold both, which raises TypeError in Python 3.
SortRaises(results) ==
    /\ \E k \in DOMAIN results : results[k][2] = DNF
    /\ \E k \in DOMAIN results : results[k][2] # DNF

\* sorted_result of line 148: the results in ascending order of time (all the
\* keys are numbers, or all are the equal strings "DNF").
SortedResult(results) ==
    Sorted([k \in DOMAIN results |-> <<results[k][2], results[k]>>])

\* A dict as the sequence of its <<key, value>> items in insertion order.
DictHas(d, key) == \E k \in DOMAIN d : d[k][1] = key
DictGet(d, key) == d[CHOOSE k \in DOMAIN d : d[k][1] = key][2]
DictSet(d, key, value) ==
    IF DictHas(d, key)
    THEN [k \in DOMAIN d |-> IF d[k][1] = key THEN <<key, value>> ELSE d[k]]
    ELSE Append(d, <<key, value>>)

\* The points counted from n down to 1 instead of from n - 1 down to 0.
RaceScore_from_n(n, idx, taken_time) == IF taken_time # DNF THEN n - idx ELSE 0

\* The points of the runner at 0-based position idx of sorted_result.
RaceScore(n, idx, taken_time) == IF taken_time # DNF THEN n - idx - 1 ELSE 0

\* The dict comprehension of lines 154-155, over the first n sorted results.
RECURSIVE Name2Score(_, _)
Name2Score(sorted_result, n) ==
    IF n = 0 THEN <<>>
    ELSE DictSet(Name2Score(sorted_result, n - 1),
                 name[sorted_result[n][1]],
                 RaceScore(Len(sorted_result), n - 1, sorted_result[n][2]))

\* The loop of lines 158-161 over the first n leaderboard slots: add the
\* score each filled slot shows to its name's entry.  A name that is not in
\* the dict raises KeyError.
CarryRaises(lb, name2score) ==
    \E k \in DOMAIN lb : lb[k] # None /\ ~DictHas(name2score, lb[k][1])

\* The loop of lines 158-161 left out: the scores of this race alone.
CarryOver_skipped(lb, name2score, n) == name2score

RECURSIVE CarryOver(_, _, _)
CarryOver(lb, name2score, n) ==
    IF n = 0 THEN name2score
    ELSE LET d == CarryOver(lb, name2score, n - 1)
         IN  IF lb[n] = None THEN d
             ELSE DictSet(d, lb[n][1], DictGet(d, lb[n][1]) + lb[n][2])

\* The ranking sorted by x[1] instead of -x[1]: lowest score first.
RankingAscending(name2score) ==
    Sorted([k \in DOMAIN name2score |-> <<name2score[k][2], name2score[k]>>])

\* sorted(name2score.items(), key=lambda x: -x[1]) of line 164.
Ranking(name2score) ==
    Sorted([k \in DOMAIN name2score |-> <<0 - name2score[k][2], name2score[k]>>])

\* The loop of lines 167-168: slot i takes the i-th item; the slots beyond
\* the items keep what they held.
Reassign(lb, ranking) ==
    [k \in DOMAIN lb |-> IF k <= Len(ranking) THEN ranking[k] ELSE lb[k]]

\* Competition.update_leaderboard: the exception raised ("none" if the call
\* returns) and the leaderboard it leaves.
update_leaderboard(lb, results) ==
    IF SortRaises(results) THEN [raised |-> "TypeError", leaderboard |-> lb]
    ELSE LET sorted_result == SortedResult(results)
             name2score == Name2Score(sorted_result, Len(sorted_result))
         IN  IF CarryRaises(lb, name2score)
             THEN [raised |-> "KeyError", leaderboard |-> lb]
             ELSE [raised |-> "none",
                   leaderboard |->
                       Reassign(lb, Ranking(CarryOver(lb, name2score, Len(lb))))]

\* The recovery with one kilometre's energy instead of 1000.
RecoverDNFPartial(en, result) ==
    [r \in Roster |->
        IF \E k \in DOMAIN result : result[k][1] = r /\ result[k][2] = DNF
        THEN recover_energy(en[r], energy_per_km)
        ELSE en[r]]

\* The recovery applied to every runner of the marathon, finishers included.
RecoverEveryone(en, result) ==
    [r \in Roster |-> recover_energy(en[r], 1000)]

\* The recovery loop leaving after the first DNF runner it recovers.
RecoverDNFFirst(en, result) ==
    [r \in Roster |->
        IF /\ \E k \in DOMAIN result : result[k][1] = r /\ result[k][2] = DNF
           /\ \A k \in DOMAIN result :
                 result[k][2] = DNF => result[k][1] >= r
        THEN recover_energy(en[r], 1000)
        ELSE en[r]]

\* The recovery given to the runners whose energy is 0, DNF or not.
RecoverExhausted(en, result) ==
    [r \in Roster |-> IF en[r] = 0 THEN recover_energy(en[r], 1000) ELSE en[r]]

\* Recovery of lines 112-114: every DNF runner recovers 1000.
RecoverDNF(en, result) ==
    [r \in Roster |->
        IF \E k \in DOMAIN result : result[k][1] = r /\ result[k][2] = DNF
        THEN recover_energy(en[r], 1000)
        ELSE en[r]]

\* ---------------------------------------------------------------- history
\* The placement points runner object r earns in a race with these results:
\* the number of runners placed behind r in ascending-time order (ties in
\* list order, DNF behind every finisher); 0 for a DNF.
PlacementPoints(results, r) ==
    LET k == CHOOSE j \in DOMAIN results : results[j][1] = r
        t == results[k][2]
        ahead == {j \in DOMAIN results :
                    /\ results[j][2] # DNF
                    /\ \/ results[j][2] < t
                       \/ results[j][2] = t /\ j < k}
    IN  IF t = DNF THEN 0 ELSE Len(results) - 1 - Cardinality(ahead)

NoCall == [op |-> "none", runner |-> 0, arg |-> 0, before |-> 0]

\* ------------------------------------------------------------------- Init
\* Competition.__init__ over freshly constructed runners: every runner has
\* full energy, every leaderboard slot is None.
InitWith(names, profiles, nrounds, dists) ==
    /\ name = names
    /\ sprint_speed = [r \in Roster |-> profiles[r][1]]
    /\ endurance_speed = [r \in Roster |-> profiles[r][2]]
    /\ energy = [r \in Roster |-> max_energy]
    /\ rounds = nrounds
    /\ distances_short = [k \in 1 .. nrounds |-> dists[k][1]]
    /\ distances_marathon = [k \in 1 .. nrounds |-> dists[k][2]]
    /\ leaderboard = [k \in 1 .. Len(runners) |-> None]
    /\ pc = "Unstarted"
    /\ current_round = 0
    /\ i = 0
    /\ short_race = NoRace
    /\ marathon = NoRace
    /\ short_result = <<>>
    /\ marathon_result = <<>>
    /\ err = "none"
    /\ call = NoCall
    /\ start_energy = [r \in Roster |-> max_energy]
    /\ earned = [r \in Roster |-> 0]
    /\ folded = 0
    /\ numeric_folded = 0
    /\ race = NoRace
    /\ race_result = <<>>
    /\ race_calls = 0

Init ==
    /\ runners = RosterList(NumRunners)
    /\ \E names \in NameChoices, profiles \in [Roster -> Profiles],
          nrounds \in 1 .. MAX_ROUNDS :
           \E dists \in [1 .. nrounds -> RoundDistances] :
               InitWith(names, profiles, nrounds, dists)

\* ---------------------------------------------------------------- actions
competition_vars == <<rounds, distances_short, distances_marathon, leaderboard,
                      pc, current_round, i, short_race, marathon, short_result,
                      marathon_result, start_energy, earned, folded,
                   numeric_folded>>
runner_fields == <<name, sprint_speed, endurance_speed>>
race_vars == <<runners, race, race_result, race_calls>>

\* runner.drain_energy(p) for a valid p, on a runner of the roster while no
\* competition is being conducted.
DrainEnergy(r, p) ==
    /\ pc = "Unstarted"
    /\ p \in 1 .. max_energy
    /\ energy' = [energy EXCEPT ![r] = drain_energy(energy[r], p)]
    /\ err' = "none"
    /\ UNCHANGED <<race_vars, runner_fields, competition_vars>>

\* runner.recover_energy(p) for a valid p.
RecoverEnergy(r, p) ==
    /\ pc = "Unstarted"
    /\ p \in 1 .. max_energy
    /\ energy' = [energy EXCEPT ![r] = recover_energy(energy[r], p)]
    /\ err' = "none"
    /\ UNCHANGED <<race_vars, runner_fields, competition_vars>>

\* The loop test with < for <=.
LoopTest_lt(round, nrounds) == round < nrounds

\* while current_round <= self.rounds (line 100).
LoopTest(round, nrounds) == round <= nrounds

\* conduct_competition, lines 98-100: entry and the first loop test.
Begin ==
    /\ pc = "Unstarted"
    /\ current_round' = 1
    /\ i' = 0
    /\ pc' = IF LoopTest(1, rounds) THEN "short_race" ELSE "Complete"
    /\ err' = "none"
    /\ UNCHANGED <<race_vars, runner_fields, energy, rounds, distances_short,
                   distances_marathon, leaderboard, short_race, marathon,
                   short_result, marathon_result, call, start_energy, earned,
                   folded,
                   numeric_folded>>

\* Lines 102-104: build the short race and conduct it.
RunShortRace ==
    /\ pc = "short_race"
    /\ LET built == ShortRace(distances_short[i + 1])
       IN  /\ short_race' = built
           /\ short_result' = conduct_race(built, energy)
           /\ energy' = race_energy(built, energy)
    /\ pc' = "marathon"
    /\ UNCHANGED <<race_vars, runner_fields, rounds, distances_short, distances_marathon,
                   leaderboard, current_round, i, marathon, marathon_result,
                   err, call, start_energy, earned, folded,
                   numeric_folded>>

\* Lines 107-109: build the marathon and conduct it.
RunMarathon ==
    /\ pc = "marathon"
    /\ LET built == MarathonRace(distances_marathon[i + 1])
       IN  /\ marathon' = built
           /\ marathon_result' = conduct_race(built, energy)
           /\ energy' = race_energy(built, energy)
    /\ start_energy' = energy
    /\ pc' = "recover"
    /\ UNCHANGED <<race_vars, runner_fields, rounds, distances_short, distances_marathon,
                   leaderboard, current_round, i, short_race, short_result,
                   err, call, earned, folded,
                   numeric_folded>>

\* Lines 112-116: recover the DNF runners, then current_round += 1.
RecoverRunners ==
    /\ pc = "recover"
    /\ energy' = RecoverDNF(energy, marathon_result)
    /\ current_round' = current_round + 1
    /\ pc' = "update_short"
    /\ UNCHANGED <<race_vars, runner_fields, rounds, distances_short, distances_marathon,
                   leaderboard, i, short_race, marathon, short_result,
                   marathon_result, err, call, start_energy, earned, folded,
                   numeric_folded>>

\* A call update_leaderboard(results) that continues at `next` when it
\* returns and at `raised` when it raises.
Fold(results, next, raised) ==
    LET out == update_leaderboard(leaderboard, results)
    IN  /\ err' = out.raised
        /\ leaderboard' = out.leaderboard
        /\ IF out.raised = "none"
           THEN /\ pc' = next
                /\ earned' = [r \in Roster |->
                                earned[r] + PlacementPoints(results, r)]
                /\ folded' = folded + 1
                /\ numeric_folded' =
                      numeric_folded + (IF \E k \in DOMAIN results :
                                              results[k][2] = DNF
                                        THEN 0 ELSE 1)
           ELSE /\ pc' = raised
                /\ UNCHANGED <<earned, folded, numeric_folded>>

\* Line 117 folding the marathon's results.
UpdateShort_marathon_result ==
    /\ pc = "update_short"
    /\ Fold(marathon_result, "update_marathon", "Raised")
    /\ UNCHANGED <<race_vars, runner_fields, energy, rounds, distances_short,
                   distances_marathon, current_round, i, short_race, marathon,
                   short_result, marathon_result, call, start_energy>>

\* Line 117; an exception leaves conduct_competition.
UpdateShort ==
    /\ pc = "update_short"
    /\ Fold(short_result, "update_marathon", "Raised")
    /\ UNCHANGED <<race_vars, runner_fields, energy, rounds, distances_short,
                   distances_marathon, current_round, i, short_race, marathon,
                   short_result, marathon_result, call, start_energy>>

\* Line 118, then the loop test of line 100 and the return of line 120.
UpdateMarathon ==
    /\ pc = "update_marathon"
    /\ Fold(marathon_result,
            IF LoopTest(current_round, rounds) THEN "short_race" ELSE "Complete",
            "Raised")
    /\ UNCHANGED <<race_vars, runner_fields, energy, rounds, distances_short,
                   distances_marathon, current_round, i, short_race, marathon,
                   short_result, marathon_result, call, start_energy>>

Next ==
    \/ \E r \in Roster, p \in DrainAmounts : DrainEnergy(r, p) /\ UNCHANGED call
    \/ \E r \in Roster, p \in RecoverAmounts : RecoverEnergy(r, p) /\ UNCHANGED call
    \/ Begin
    \/ RunShortRace
    \/ RunMarathon
    \/ RecoverRunners
    \/ UpdateShort
    \/ UpdateMarathon

Spec == Init /\ [][Next]_vars

\* conduct_competition called on a competition of freshly constructed
\* runners (no drain_energy / recover_energy call before it).
ConductStep ==
    \/ RunShortRace
    \/ RunMarathon
    \/ RecoverRunners
    \/ UpdateShort
    \/ UpdateMarathon
NextConduct == Begin \/ ConductStep

\* The call is one sequential Python call: while it is at a statement of
\* its loop, it goes on to the next position (fairness is stated on the
\* position alone).
LoopPositions ==
    {"short_race", "marathon", "recover", "update_short", "update_marathon"}
Proceed ==
    /\ pc \in LoopPositions
    /\ pc' \in (LoopPositions \cup {"Complete", "Raised"}) \ {pc}

SpecConduct == Init /\ [][NextConduct]_vars /\ WF_pc(Proceed)

\* -------------------------------------------------- Runner on its own
\* The runner of test_runner.py's setUp (sprint 6.5, endurance 4.0), freshly
\* constructed, and direct drain_energy / recover_energy calls on it;
\* `call` records the last call.  The arguments are the ends of the valid
\* range, the amounts test_runner.py uses, and 1, which reaches every energy.
TestRunner == 1
CallAmounts == {1, 100, 200, 300, 500, 999, 1000}

InitRunner ==
    /\ runners = RosterList(NumRunners)
    /\ InitWith([r \in Roster |-> Names[r]], [r \in Roster |-> <<65, 40>>], 1,
                <<<<500, 4500>>>>)

DrainCall(p) ==
    /\ DrainEnergy(TestRunner, p)
    /\ call' = [op |-> "drain_energy", runner |-> TestRunner, arg |-> p,
                before |-> energy[TestRunner]]

RecoverCall(p) ==
    /\ RecoverEnergy(TestRunner, p)
    /\ call' = [op |-> "recover_energy", runner |-> TestRunner, arg |-> p,
                before |-> energy[TestRunner]]

\* Arguments both methods reject: the strings of test_runner.py, a float,
\* and the integers next to the valid range 1 .. 1000.
BadArguments ==
    {[type |-> "str", value |-> 200], [type |-> "str", value |-> 100],
     [type |-> "float", value |-> 200], [type |-> "int", value |-> 0],
     [type |-> "int", value |-> 0 - 5], [type |-> "int", value |-> max_energy + 1]}

\* runner.drain_energy(a) for an argument it rejects: the call raises.
DrainCallRejected(a) ==
    /\ pc = "Unstarted"
    /\ Rejection(a) # "none"
    /\ energy' = [energy EXCEPT
                     ![TestRunner] = drain_energy_call(energy[TestRunner], a)]
    /\ err' = Rejection(a)
    /\ call' = [op |-> "drain_energy raises", runner |-> TestRunner,
                arg |-> a, before |-> energy[TestRunner]]
    /\ UNCHANGED <<race_vars, runner_fields, competition_vars>>

\* runner.recover_energy(a) for an argument it rejects.
RecoverCallRejected(a) ==
    /\ pc = "Unstarted"
    /\ Rejection(a) # "none"
    /\ energy' = [energy EXCEPT
                     ![TestRunner] = recover_energy_call(energy[TestRunner], a)]
    /\ err' = Rejection(a)
    /\ call' = [op |-> "recover_energy raises", runner |-> TestRunner,
                arg |-> a, before |-> energy[TestRunner]]
    /\ UNCHANGED <<race_vars, runner_fields, competition_vars>>

NextRunner ==
    \/ \E p \in CallAmounts : DrainCall(p)
    \/ \E p \in CallAmounts : RecoverCall(p)
    \/ \E a \in BadArguments : DrainCallRejected(a)
    \/ \E a \in BadArguments : RecoverCallRejected(a)

SpecRunner == InitRunner /\ [][NextRunner]_vars

\* ------------------------------------------- update_leaderboard on its own
\* Direct calls competition.update_leaderboard(results) with result lists
\* over the full roster, in roster order: every runner has one of two times
\* (milliseconds) or "DNF".  `call` records the last call; a caller that
\* catches the exception can call again.
MaxFolds == 2
ResultTimes == {DNF, 1000, 2000}
ResultSets == {[r \in Roster |-> <<r, times[r]>>] : times \in [Roster -> ResultTimes]}

InitLeaderboard ==
    /\ runners = RosterList(NumRunners)
    /\ \E names \in NameChoices :
           InitWith(names, [r \in Roster |-> <<65, 40>>], 1, <<<<500, 4500>>>>)

UpdateLeaderboardCall(results) ==
    /\ pc = "Unstarted"
    /\ folded < MaxFolds
    /\ Fold(results, "Unstarted", "Unstarted")
    /\ call' = [op |-> "update_leaderboard", runner |-> 0, arg |-> results,
                before |-> leaderboard]
    /\ UNCHANGED <<race_vars, runner_fields, energy, rounds, distances_short,
                   distances_marathon, current_round, i, short_race, marathon,
                   short_result, marathon_result, start_energy>>

NextLeaderboard == \E results \in ResultSets : UpdateLeaderboardCall(results)

SpecLeaderboard == InitLeaderboard /\ [][NextLeaderboard]_vars

\* ------------------------------------------ conduct_competition called again
\* competition.conduct_competition() called on a Competition whose earlier
\* call has returned: lines 98-100 set the locals again and touch nothing
\* else.  The competitions are those of Init, on fresh runners.
MaxConductCalls == 2

\* A second call that starts from a cleared leaderboard.
ConductAgain_reset ==
    /\ pc = "Complete"
    /\ folded < 2 * rounds * MaxConductCalls
    /\ current_round' = 1
    /\ i' = 0
    /\ pc' = IF LoopTest(1, rounds) THEN "short_race" ELSE "Complete"
    /\ err' = "none"
    /\ leaderboard' = [k \in DOMAIN leaderboard |-> None]
    /\ UNCHANGED <<race_vars, runner_fields, energy, rounds, distances_short,
                   distances_marathon, short_race, marathon, short_result,
                   marathon_result, call, start_energy, earned, folded,
                   numeric_folded>>

ConductAgain ==
    /\ pc = "Complete"
    /\ folded < 2 * rounds * MaxConductCalls
    /\ current_round' = 1
    /\ i' = 0
    /\ pc' = IF LoopTest(1, rounds) THEN "short_race" ELSE "Complete"
    /\ err' = "none"
    /\ UNCHANGED <<race_vars, runner_fields, energy, rounds, distances_short,
                   distances_marathon, leaderboard, short_race, marathon,
                   short_result, marathon_result, call, start_energy, earned,
                   folded, numeric_folded>>

NextAgain == NextConduct \/ ConductAgain

SpecAgain == Init /\ [][NextAgain]_vars

\* ------------------------------------------------ a two-runner competition
\* Competition([fast, slow], rounds, [1.0] * rounds, [2.0] * rounds) with a
\* 6.5 / 4.0 m/s runner and a 3.0 / 2.0 m/s runner, conducted as in Spec.
InitTwoRunners ==
    /\ runners = RosterList(2)
    /\ \E nrounds \in 1 .. MAX_ROUNDS :
           InitWith([r \in Roster |-> Names[r]],
                    [r \in Roster |-> IF r = 1 THEN <<65, 40>> ELSE <<30, 20>>],
                    nrounds, [k \in 1 .. nrounds |-> <<1000, 2000>>])

SpecTwoRunners == InitTwoRunners /\ [][Next]_vars

\* --------------------------------------------------------- Race on its own
\* One Race object built by ShortRace(distance, runners=...) or
\* MarathonRace(distance, runners=...), then add_runner, remove_runner and
\* conduct_race calls on it, and drain_energy calls on two of the runners.
\* The constructor takes any list of Runner objects: the empty list, lists
\* of maximum_participants - 1, maximum_participants and
\* maximum_participants + 1 runners (conduct_competition hands the whole
\* roster over, whatever its size), and a list holding one runner twice.
\* `call` records the last call and the roster before it.
RacePool == 1 .. MarathonRace(0).maximum_participants + 1
RaceChoices == {ShortRace(1200), MarathonRace(1500), MarathonRace(4500)}
InitialRunners(race_) ==
    {<<>>, <<1, 1>>} \cup
    {RosterList(n) : n \in race_.maximum_participants - 1 ..
                              race_.maximum_participants + 1}
\* The runners the calls are made with.
CallRunners == {1, 2, race.maximum_participants + 1}
RaceDrainAmounts == {850, 1000}
\* Number of calls made on the race and its runners.
MaxRaceCalls == 3

InitRace ==
    /\ race \in RaceChoices
    /\ runners \in InitialRunners(race)
    /\ name = [r \in RacePool |-> Names[((r - 1) % Len(Names)) + 1]]
    /\ sprint_speed = [r \in RacePool |-> IF r % 2 = 1 THEN 65 ELSE 30]
    /\ endurance_speed = [r \in RacePool |-> IF r % 2 = 1 THEN 40 ELSE 20]
    /\ energy = [r \in RacePool |-> max_energy]
    /\ rounds = 1
    /\ distances_short = <<500>>
    /\ distances_marathon = <<4500>>
    /\ leaderboard = <<>>
    /\ pc = "Unstarted"
    /\ current_round = 0
    /\ i = 0
    /\ short_race = NoRace
    /\ marathon = NoRace
    /\ short_result = <<>>
    /\ marathon_result = <<>>
    /\ err = "none"
    /\ call = NoCall
    /\ start_energy = [r \in RacePool |-> max_energy]
    /\ earned = [r \in RacePool |-> 0]
    /\ folded = 0
    /\ numeric_folded = 0
    /\ race_result = <<>>
    /\ race_calls = 0

AddRunner(r) ==
    LET out == add_runner(runners, r, race.maximum_participants)
    IN  /\ race_calls < MaxRaceCalls
        /\ race_calls' = race_calls + 1
        /\ runners' = out.runners
        /\ err' = out.raised
        /\ call' = [op |-> "add_runner", runner |-> r, arg |-> 0,
                    before |-> runners]
        /\ UNCHANGED <<race, race_result, runner_fields, energy,
                       competition_vars>>

RemoveRunner(r) ==
    LET out == remove_runner(runners, r)
    IN  /\ race_calls < MaxRaceCalls
        /\ race_calls' = race_calls + 1
        /\ runners' = out.runners
        /\ err' = out.raised
        /\ call' = [op |-> "remove_runner", runner |-> r, arg |-> 0,
                    before |-> runners]
        /\ UNCHANGED <<race, race_result, runner_fields, energy,
                       competition_vars>>

\* race.conduct_race(); start_energy records the energy before the call.
ConductRace ==
    /\ race_calls < MaxRaceCalls
    /\ race_calls' = race_calls + 1
    /\ race_result' = conduct_race(race, energy)
    /\ energy' = race_energy(race, energy)
    /\ start_energy' = energy
    /\ err' = "none"
    /\ call' = [op |-> "conduct_race", runner |-> 0, arg |-> 0,
                before |-> runners]
    /\ UNCHANGED <<race, runners, runner_fields, rounds, distances_short,
                   distances_marathon, leaderboard, pc, current_round, i,
                   short_race, marathon, short_result, marathon_result,
                   earned, folded,
                   numeric_folded>>

DrainRunner(r, p) ==
    /\ race_calls < MaxRaceCalls
    /\ race_calls' = race_calls + 1
    /\ p \in 1 .. max_energy
    /\ energy' = [energy EXCEPT ![r] = drain_energy(energy[r], p)]
    /\ err' = "none"
    /\ UNCHANGED <<runners, race, race_result, runner_fields,
                   competition_vars>>
    /\ call' = [op |-> "drain_energy", runner |-> r, arg |-> p,
                before |-> energy[r]]

NextRace ==
    \/ \E r \in CallRunners : AddRunner(r)
    \/ \E r \in CallRunners : RemoveRunner(r)
    \/ ConductRace
    \/ \E r \in {1, 2}, p \in RaceDrainAmounts : DrainRunner(r, p)

SpecRace == InitRace /\ [][NextRace]_vars

\* ================================================================= claims
\* The score the leaderboard shows for a name: that of the first slot that
\* carries the name, 0 if no slot does.
HasSlot(lb, nm) == \E k \in DOMAIN lb : lb[k] # None /\ lb[k][1] = nm
ShownScore(lb, nm) ==
    IF HasSlot(lb, nm)
    THEN lb[CHOOSE k \in DOMAIN lb :
                /\ lb[k] # None /\ lb[k][1] = nm
                /\ \A j \in 1 .. k - 1 : lb[j] = None \/ lb[j][1] # nm][2]
    ELSE 0
AllNone(lb) == \A k \in DOMAIN lb : lb[k] = None
IsDNF(results, r) == \E k \in DOMAIN results : results[k] = <<r, DNF>>
\* conduct_competition is between two rounds, or has returned.
RoundDone == folded > 0 /\ pc \in {"short_race", "Complete"}

\* C1: for every round k, the short race of round k is run at the k-th short
\* distance and the marathon of round k at the k-th marathon distance.
\* (current_round is k from the start of round k until its marathon is over.)
C1_RoundDistances ==
    /\ pc \in {"marathon", "recover"} =>
            short_race.distance = distances_short[current_round]
    /\ pc = "recover" => marathon.distance = distances_marathon[current_round]

\* C2: every update_leaderboard call returns without raising, whatever mix
\* of times and "DNF" the results hold, and gives every DNF runner 0 points
\* (the place behind every finisher, which is worth nothing extra).
C2_NoRaise ==
    call.op = "update_leaderboard" =>
        /\ err = "none"
        /\ \A r \in Roster :
              IsDNF(call.arg, r) =>
                  ShownScore(leaderboard, name[r]) = ShownScore(call.before, name[r])

\* C3: the leaderboard has |roster| slots; all are empty at construction;
\* after every round every slot is filled and every roster member occupies
\* exactly one slot (as many slots carry a name as runners have it).
C3_FullLeaderboard ==
    /\ Len(leaderboard) = NumRunners
    /\ pc = "Unstarted" => AllNone(leaderboard)
    /\ RoundDone =>
          /\ \A k \in DOMAIN leaderboard : leaderboard[k] # None
          /\ \A r \in Roster :
                Cardinality({k \in DOMAIN leaderboard :
                                leaderboard[k] # None /\ leaderboard[k][1] = name[r]})
                    = Cardinality({q \in Roster : name[q] = name[r]})

\* C4: after every update_leaderboard call the filled slots, read in rank
\* order, carry non-increasing cumulative scores.
C4_NonIncreasing ==
    \A j, k \in DOMAIN leaderboard :
        (j < k /\ leaderboard[j] # None /\ leaderboard[k] # None)
            => leaderboard[j][2] >= leaderboard[k][2]

\* A second fold has put a new name in the first slot, ahead of a lower score.
C4_Witness ==
    /\ call.op = "update_leaderboard" /\ err = "none" /\ folded = 2
    /\ call.before[1] # None /\ leaderboard[1] # None /\ leaderboard[2] # None
    /\ leaderboard[1][1] # call.before[1][1]
    /\ leaderboard[1][2] > leaderboard[2][2]

\* C5: update_leaderboard on an empty leaderboard with one race of N
\* runners: without DNF the runner at 0-based position i of the ascending
\* order shows N-1-i points; with every runner DNF every runner shows 0.
C5_SingleRaceScores ==
    (call.op = "update_leaderboard" /\ err = "none" /\ AllNone(call.before)) =>
        \A r \in Roster :
            ShownScore(leaderboard, name[r]) = PlacementPoints(call.arg, r)

\* C6: after any sequence of update_leaderboard calls over the full roster
\* the score shown for each runner is the sum of the points that runner
\* earned in the races folded in so far.
C6_CumulativeSum ==
    \A r \in Roster : ShownScore(leaderboard, name[r]) = earned[r]

\* C7: a runner's energy is 1000 right after construction, and within
\* 0..1000 after any sequence of valid drain_energy and recover_energy
\* calls, races and round cleanups.
C7_EnergyRange ==
    /\ \A r \in Roster : energy[r] = max_energy
    /\ [](\A r \in Roster : energy[r] \in 0 .. max_energy)

\* Three rounds: the marathons drained every runner to 0, the last one was
\* all DNF from energy 0, and the cleanup recovered every runner to 1000.
C7_Witness ==
    /\ pc = "Complete" /\ current_round = 4
    /\ \A r \in Roster :
          IsDNF(marathon_result, r) /\ start_energy[r] = 0 /\ energy[r] = max_energy

\* C8: drain_energy(p) leaves max(0, e - p) and recover_energy(p) leaves
\* min(1000, e + p), for the energy e before the call.
C8_DrainRecover ==
    /\ call.op = "drain_energy" =>
          energy[call.runner] = Max(0, call.before - call.arg)
    /\ call.op = "recover_energy" =>
          energy[call.runner] = Min(1000, call.before + call.arg)

\* Draining 500 from full and recovering 500 gives 1000 again.
C8_Witness ==
    /\ call.op = "recover_energy" /\ call.arg = 500 /\ call.before = 500
    /\ energy[TestRunner] = 1000

\* C9: in a marathon of distance d a runner is DNF iff the energy check at
\* the start of some kilometre j < ceil(d) finds energy 0; a runner who
\* starts with exactly 100 * ceil(d) finishes with a time and energy 0.
C9_MarathonDNF ==
    pc = "recover" =>
        \A r \in Roster :
            LET km == Ceil(marathon.distance)
                e == start_energy[r]
            IN  /\ IsDNF(marathon_result, r) <=>
                      \E j \in 0 .. km - 1 : Max(0, e - 100 * j) = 0
                /\ e = 100 * km =>
                      ~IsDNF(marathon_result, r) /\ energy[r] = 0

\* One runner started a marathon with exactly the energy it takes and
\* finished at 0; another ran out on the way.
C9_Witness ==
    /\ pc = "recover"
    /\ \E r \in Roster :
          /\ start_energy[r] = 100 * Ceil(marathon.distance)
          /\ ~IsDNF(marathon_result, r) /\ energy[r] = 0
    /\ \E r \in Roster : IsDNF(marathon_result, r) /\ start_energy[r] > 0

\* C10: every runner who was DNF in the marathon of round k has energy
\* 1000 from the cleanup of round k until round k+1 starts (and when the
\* competition returns), whatever energy the runner started the marathon with.
C10_DnfRecovered ==
    (pc \in {"update_short", "update_marathon", "short_race", "Complete"}
        /\ marathon_result # <<>>) =>
        \A r \in Roster : IsDNF(marathon_result, r) => energy[r] = max_energy

\* Round 2 starts after a marathon in which a runner who had 150 was DNF.
C10_Witness ==
    /\ pc = "short_race" /\ current_round = 2
    /\ \E r \in Roster :
          IsDNF(marathon_result, r) /\ start_energy[r] = 150 /\ energy[r] = max_energy

\* conduct_competition is past the cleanup of a round whose marathon result
\* is marathon_result, and has not started the next marathon.
AfterCleanup ==
    pc \in {"update_short", "update_marathon", "short_race", "marathon",
            "Complete", "Raised"}
Finisher(r) ==
    \E k \in DOMAIN marathon_result :
        marathon_result[k][1] = r /\ marathon_result[k][2] # DNF

\* C11 as stated: a runner who finishes round k's marathon starts round k+1
\* with exactly the energy the marathon started with minus 100 per started
\* kilometre.
C11_FinisherEnergyExact ==
    AfterCleanup =>
        \A r \in Roster :
            Finisher(r) =>
                energy[r] = start_energy[r] - energy_per_km * Ceil(marathon.distance)

\* C11, amended: a runner who finishes round k's marathon starts round k+1
\* with the energy the marathon started with minus 100 per started
\* kilometre, but not less than 0; the cleanup does not recover finishers.
C11_FinisherEnergy ==
    AfterCleanup =>
        \A r \in Roster :
            Finisher(r) =>
                energy[r] = Max(0, start_energy[r]
                                     - energy_per_km * Ceil(marathon.distance))

\* Round 2 starts after a marathon that one runner finished on its last 150
\* energy points and the other from full energy.
C11_Witness ==
    /\ pc = "short_race" /\ current_round = 2
    /\ \E r, s \in Roster :
          /\ Finisher(r) /\ start_energy[r] = 150 /\ energy[r] = 0
          /\ Finisher(s) /\ start_energy[s] = max_energy /\ energy[s] = 800

\* C12: a short race never yields "DNF", whatever the runners' energy (0
\* included), and leaves every runner's energy as it was.
C12_ShortRaceFrame ==
    (call.op = "conduct_race" /\ race.race_type = "short") =>
        /\ \A k \in DOMAIN race_result : race_result[k][2] # DNF
        /\ energy = start_energy

\* A short race has been run with a runner of the roster at energy 0.
C12_Witness ==
    /\ call.op = "conduct_race" /\ race.race_type = "short"
    /\ \E k \in DOMAIN race_result :
          /\ start_energy[race_result[k][1]] = 0
          /\ energy[race_result[k][1]] = 0
          /\ race_result[k][2] > 0

\* C13: in every state a Race reaches by its construction (with or without
\* an initial runner list) and add_runner / remove_runner calls, the roster
\* holds at most maximum_participants runners and no runner twice.
C13_RosterInvariant ==
    /\ Len(runners) <= race.maximum_participants
    /\ \A j, k \in DOMAIN runners : j # k => runners[j] # runners[k]

Present(rs, r) == \E k \in DOMAIN rs : rs[k] = r

\* C16: add_runner(r) appends r exactly when the roster is below its
\* maximum and r is not in it; a full roster signals race-full (also when r
\* is in it), otherwise a present r signals already-present, and both leave
\* the roster unchanged.  remove_runner(r) takes r out exactly when r is in
\* the roster; otherwise it signals not-found and leaves the roster
\* unchanged.  The three errors are different.
C16_AddRemove ==
    /\ call.op = "add_runner" =>
          LET rs == call.before
              r == call.runner
              full == Len(rs) >= race.maximum_participants
          IN  /\ (~full /\ ~Present(rs, r)) <=> (runners = Append(rs, r))
              /\ (~full /\ ~Present(rs, r)) <=> (err = "none")
              /\ full <=> (err = "RaceIsFullError")
              /\ (~full /\ Present(rs, r)) <=> (err = "RunnerAlreadyExistsError")
              /\ err # "none" => runners = rs
    /\ call.op = "remove_runner" =>
          LET rs == call.before
              r == call.runner
          IN  /\ Present(rs, r) <=> (err = "none")
              /\ ~Present(rs, r) <=> (err = "RunnerDoesntExistError")
              /\ Present(rs, r) <=>
                    \E k \in DOMAIN rs :
                        /\ rs[k] = r
                        /\ runners = SubSeq(rs, 1, k - 1) \o SubSeq(rs, k + 1, Len(rs))
              /\ err # "none" => runners = rs

\* add_runner was called on a full roster with a runner the roster holds,
\* and signalled race-full.
C16_Witness ==
    /\ call.op = "add_runner"
    /\ Len(call.before) >= race.maximum_participants
    /\ Present(call.before, call.runner)
    /\ err = "RaceIsFullError"

\* The number of entries of rs[1 .. k - 1] that are the runner rs[k].
EarlierRuns(rs, k) == Cardinality({j \in 1 .. k - 1 : rs[j] = rs[k]})
\* What a marathon of `km` kilometres gives a runner who starts it with
\* energy e and runs a kilometre in t hundredths of a second.
MarathonOutcome(km, e, t) ==
    IF e > energy_per_km * (km - 1) THEN km * t * 10 ELSE DNF

\* C20: conduct_race returns one (runner, result) pair per roster entry, in
\* roster order; a marathon result is determined by the runner's own energy
\* (when its turn comes) and endurance speed alone.
C20_RosterOrder ==
    call.op = "conduct_race" =>
        /\ Len(race_result) = Len(runners)
        /\ \A k \in DOMAIN race_result :
              /\ race_result[k][1] = runners[k]
              /\ race.race_type = "long" =>
                    LET r == runners[k]
                        km == Ceil(race.distance)
                        e == Max(0, start_energy[r]
                                      - energy_per_km * km * EarlierRuns(runners, k))
                    IN  race_result[k][2] =
                            MarathonOutcome(km, e, RoundDiv(1000 * 1000,
                                                            endurance_speed[r]))

\* A marathon result that is not in ascending order of time: a slower
\* finisher ahead of a faster one, and a "DNF" ahead of a finisher.
C20_Witness ==
    /\ call.op = "conduct_race" /\ race.race_type = "long"
    /\ \E j, k \in DOMAIN race_result :
          /\ j < k
          /\ race_result[k][2] # DNF
          /\ race_result[j][2] > race_result[k][2]
    /\ \E j, k \in DOMAIN race_result :
          j < k /\ race_result[j][2] = DNF /\ race_result[k][2] # DNF

\* C14: two fresh runners (6.5 / 4.0 m/s and 3.0 / 2.0 m/s), one round,
\* short distance 1.0 and marathon distance 2.0: conduct_competition returns
\* the leaderboard 1st = (faster runner, 2), 2nd = (slower runner, 0).
FreshStart == \A r \in Roster : start_energy[r] = max_energy
C14_EndToEnd ==
    (pc = "Complete" /\ rounds = 1 /\ FreshStart) =>
        leaderboard = <<<<name[1], 2>>, <<name[2], 0>>>>

\* The one-round competition of the two fresh runners has returned; the
\* faster runner won the short race in 184.62 s and the marathon in 500 s.
C14_Witness ==
    /\ pc = "Complete" /\ rounds = 1 /\ FreshStart
    /\ Len(runners) = 2
    /\ sprint_speed = <<65, 30>> /\ endurance_speed = <<40, 20>>
    /\ short_race.distance = 1000 /\ marathon.distance = 2000
    /\ short_result = <<<<1, 184620>>, <<2, 399996>>>>
    /\ marathon_result = <<<<1, 500000>>, <<2, 1000000>>>>

RejectedCall == call.op \in {"drain_energy raises", "recover_energy raises"}

\* C15: a drain_energy or recover_energy call with an argument that is not
\* an integer, or an integer outside 1 .. 1000, raises (a type error for the
\* former, a value error for the latter) and leaves the runner's energy as
\* it was before the call.
C15_RejectedCallFrame ==
    RejectedCall =>
        /\ err = IF call.arg.type # "int" THEN "CustomTypeError"
                 ELSE "CustomValueError"
        /\ energy[call.runner] = call.before

\* A call has rejected the integer 1001 on a runner at energy 500, which a
\* mutation would have changed.
C15_Witness ==
    /\ RejectedCall
    /\ call.arg = [type |-> "int", value |-> max_energy + 1]
    /\ call.before = 500
    /\ err = "CustomValueError"

InRound == pc \in {"short_race", "marathon", "recover"}
Folding == pc \in {"update_short", "update_marathon"}

\* C17: conduct_competition on runners that start at full energy returns
\* after exactly `rounds` rounds: the round counter goes 1, ..., rounds,
\* every round's races give a result for every roster member and two result
\* sets are folded per round, 2 * rounds in all, and no call raises.
RoundCount ==
    /\ pc # "Raised" /\ err = "none"
    /\ InRound => /\ current_round \in 1 .. rounds
                   /\ folded = 2 * (current_round - 1)
    /\ Folding => /\ current_round - 1 \in 1 .. rounds
                   /\ folded = 2 * (current_round - 2)
                               + (IF pc = "update_short" THEN 0 ELSE 1)
                   /\ Len(short_result) = Len(runners)
                   /\ Len(marathon_result) = Len(runners)
    /\ pc = "Complete" => /\ current_round = rounds + 1
                           /\ folded = 2 * rounds
C17_Terminates ==
    /\ (pc # "Unstarted") ~> (pc = "Complete")
    /\ []RoundCount

\* A competition of MAX_ROUNDS rounds has returned.
C17_Witness ==
    /\ pc = "Complete" /\ rounds = MAX_ROUNDS
    /\ current_round = MAX_ROUNDS + 1
    /\ folded = 2 * MAX_ROUNDS

\* C18: the steps of a round come in the order short race, marathon,
\* recovery of the DNF runners, folding of the short race's results, folding
\* of the marathon's results; the next round's short race starts only after
\* the marathon's results are folded.
C18_StepOrder ==
    [][/\ pc = "Unstarted" => pc' \in {"Unstarted", "short_race"}
       /\ pc = "short_race" =>
             /\ pc' = "marathon"
             /\ short_race'.race_type = "short"
             /\ Len(short_result') = Len(runners)
             /\ UNCHANGED <<marathon, marathon_result, leaderboard, energy>>
       /\ pc = "marathon" =>
             /\ pc' = "recover"
             /\ marathon'.race_type = "long"
             /\ Len(marathon_result') = Len(runners)
             /\ UNCHANGED <<short_race, short_result, leaderboard>>
       /\ pc = "recover" =>
             /\ pc' = "update_short"
             /\ \A r \in Roster :
                   energy'[r] = IF IsDNF(marathon_result, r) THEN max_energy
                                ELSE energy[r]
             /\ UNCHANGED <<short_result, marathon_result, leaderboard>>
       /\ pc = "update_short" =>
             /\ pc' \in {"update_marathon", "Raised"}
             /\ leaderboard' = update_leaderboard(leaderboard, short_result).leaderboard
             /\ UNCHANGED <<short_result, marathon_result, energy>>
       /\ pc = "update_marathon" =>
             /\ pc' \in {"short_race", "Complete", "Raised"}
             /\ leaderboard' = update_leaderboard(leaderboard, marathon_result).leaderboard
             /\ UNCHANGED <<short_result, marathon_result, energy>>
       /\ pc \in {"Complete", "Raised"} => pc' = pc
       /\ pc' = "short_race" => pc \in {"Unstarted", "update_marathon"}]_vars

\* Round 2 starts after a round whose short race gave points and whose
\* marathon nobody finished: the two folds differ and every runner has been
\* recovered.
C18_Witness ==
    /\ pc = "short_race" /\ current_round = 2 /\ folded = 2
    /\ \A r \in Roster : IsDNF(marathon_result, r) /\ energy[r] = max_energy
    /\ \E r \in Roster : earned[r] > 0

\* The 0-based place of runner r in the ascending-time order of `results`
\* (one entry per roster member, in roster order), equal times in roster
\* order.
TimePlace(results, r) ==
    Cardinality({q \in Roster :
                    \/ results[q][2] < results[r][2]
                    \/ results[q][2] = results[r][2] /\ q < r})
\* The place at which name nm enters the score map of the update: that of
\* the first runner carrying it.
InsertionPlace(results, nm) ==
    LET places == {TimePlace(results, r) : r \in {q \in Roster : name[q] = nm}}
    IN  CHOOSE p \in places : \A q \in places : p <= q

\* C19: after an update_leaderboard call, entries with equal cumulative
\* score stand in the order in which their names entered the update's score
\* map: the ascending-time order of the results folded in, equal times (and
\* all-DNF results) in roster order.
C19_StableTies ==
    (call.op = "update_leaderboard" /\ err = "none") =>
        \A j, k \in DOMAIN leaderboard :
            (/\ j < k
             /\ leaderboard[j] # None /\ leaderboard[k] # None
             /\ leaderboard[j][2] = leaderboard[k][2]) =>
                InsertionPlace(call.arg, leaderboard[j][1])
                    < InsertionPlace(call.arg, leaderboard[k][1])

\* After a second update, two runners with the same positive cumulative
\* score stand in the order of the last race, against the roster order; and
\* the runner ahead of them ties with them too.
C19_Witness ==
    /\ call.op = "update_leaderboard" /\ err = "none" /\ folded = 2
    /\ leaderboard = <<<<name[1], 2>>, <<name[3], 2>>, <<name[2], 2>>>>
    /\ name[1] # name[2]

\* The last marathon started with every runner at the same energy.
UniformStart == \A r, q \in Roster : start_energy[r] = start_energy[q]
AllDNF(results) == \A k \in DOMAIN results : results[k][2] = DNF
AllNumeric(results) == \A k \in DOMAIN results : results[k][2] # DNF
MarathonRun_done == pc # "Unstarted" /\ marathon_result # <<>>

\* C21: when the runners (distinct objects) start a marathon of
\* conduct_competition with the same energy, its result set is all-DNF or
\* all-numeric, and the runners have the same energy again after it and
\* after the cleanup, that is at the round boundary.
C21_UniformRounds ==
    (MarathonRun_done /\ UniformStart) =>
        /\ AllDNF(marathon_result) \/ AllNumeric(marathon_result)
        /\ \A r, q \in Roster : energy[r] = energy[q]

\* Round 2 starts after a marathon every runner began at 500 and finished,
\* runners of both speed profiles among them.
C21_Witness ==
    /\ pc = "short_race" /\ current_round = 2
    /\ \A r \in Roster : start_energy[r] = 500
    /\ AllNumeric(marathon_result)
    /\ \E r, q \in Roster : endurance_speed[r] # endurance_speed[q]

RECURSIVE ScoreSum(_, _)
\* The sum of the scores in the first n slots of the leaderboard.
ScoreSum(lb, n) ==
    IF n = 0 THEN 0
    ELSE ScoreSum(lb, n - 1) + (IF lb[n] = None THEN 0 ELSE lb[n][2])
DistinctNames == \A r, q \in Roster : r # q => name[r] # name[q]
\* N * (N - 1) / 2: the points of one race in which everybody finishes.
RacePoints == (Len(runners) * (Len(runners) - 1)) \div 2

\* C22: with pairwise distinct names, the scores on the leaderboard sum to
\* N * (N - 1) / 2 times the number of result sets folded in in which
\* nobody was DNF: every all-numeric update adds N * (N - 1) / 2 to the
\* sum, every all-DNF update nothing.
C22_ScoreSum ==
    DistinctNames =>
        ScoreSum(leaderboard, Len(leaderboard)) = RacePoints * numeric_folded

\* conduct_competition has returned after three rounds whose last marathon
\* nobody finished: five of the six result sets count.
C22_Witness ==
    /\ DistinctNames
    /\ pc = "Complete" /\ folded = 6 /\ numeric_folded = 5
    /\ AllDNF(marathon_result)
    /\ ScoreSum(leaderboard, Len(leaderboard)) = 5 * RacePoints

\* C23: a runner who finishes a marathon with energy 0 is not recovered by
\* the cleanup and keeps energy 0 up to the next round's marathon; a runner
\* who starts a marathon with energy 0 is marked DNF with the energy still
\* 0 (nothing run, nothing drained), and the cleanup then recovers the
\* runner to 1000.
C23_ExhaustedFinisher ==
    [][\A r \in Roster :
          /\ (pc = "recover" /\ ~IsDNF(marathon_result, r) /\ energy[r] = 0)
                => energy'[r] = 0
          /\ (pc \in {"update_short", "update_marathon", "short_race"}
                /\ energy[r] = 0)
                => energy'[r] = 0
          /\ (pc = "marathon" /\ energy[r] = 0)
                => (IsDNF(marathon_result', r) /\ energy'[r] = 0)
          /\ (pc = "recover" /\ IsDNF(marathon_result, r))
                => energy'[r] = max_energy]_vars

\* Fresh runners after the cleanup of round 3: they finished round 2's
\* marathon with energy 0, started round 3's with 0, were marked DNF and
\* are back at 1000.
C23_Witness ==
    /\ pc = "update_short" /\ current_round = 4
    /\ \A r \in Roster :
          /\ start_energy[r] = 0
          /\ IsDNF(marathon_result, r)
          /\ energy[r] = max_energy

LongMarathon == Ceil(marathon.distance) > 10

\* C24: in a marathon of more than 10 started kilometres every runner is
\* marked DNF and ends with energy 0, whatever the speed and the starting
\* energy, and folding its results in changes no score.
C24_LongMarathon ==
    /\ []((pc = "recover" /\ LongMarathon) =>
            /\ AllDNF(marathon_result)
            /\ \A r \in Roster : energy[r] = 0)
    /\ [][(pc = "update_marathon" /\ LongMarathon) =>
                \A r \in Roster :
                    ShownScore(leaderboard', name[r]) = ShownScore(leaderboard, name[r])]_vars

\* The results of an 11 km marathon that runners of both speed profiles
\* started with 1000 and with 150 energy have been folded in.
C24_Witness ==
    /\ pc \in {"short_race", "Complete"} /\ current_round = 2 /\ folded = 2
    /\ marathon.distance = 11000
    /\ AllDNF(marathon_result)
    /\ \E r, q \in Roster :
          /\ start_energy[r] = max_energy /\ start_energy[q] = 150
          /\ endurance_speed[r] # endurance_speed[q]
    /\ \E r \in Roster : ShownScore(leaderboard, name[r]) > 0

\* C25: a conduct_competition call on a Competition that is Complete resets
\* neither the leaderboard nor the runners' energy; it runs `rounds` further
\* rounds, and the points of their races are added to the scores the
\* leaderboard already shows (for distinct names, every runner's score is
\* the sum of the points of all the races of both calls).
C25_NoReset ==
    /\ [][(pc = "Complete" /\ pc' # "Complete") =>
                /\ pc' = "short_race" /\ current_round' = 1
                /\ leaderboard' = leaderboard
                /\ energy' = energy]_vars
    /\ []((DistinctNames /\ pc = "Complete") =>
              \A r \in Roster : ShownScore(leaderboard, name[r]) = earned[r])
    /\ [](pc = "Complete" =>
              /\ current_round = rounds + 1
              /\ folded \in {2 * rounds * c : c \in 1 .. MaxConductCalls})

\* The second call of a one-round competition at 4.5 km has returned: the
\* runners finished its marathon on the 500 the first call left them, and
\* the leaderboard holds the points of all four races.
C25_Witness ==
    /\ pc = "Complete" /\ rounds = 1 /\ folded = 4 /\ numeric_folded = 4
    /\ DistinctNames
    /\ \A r \in Roster : start_energy[r] = 500 /\ energy[r] = 0
    /\ AllNumeric(marathon_result)
    /\ ScoreSum(leaderboard, Len(leaderboard)) = 4 * RacePoints

====
